---- MODULE Spec2Model ----
(***************************************************************************)
(* Model of src/core/channel/channel_stack.c: the single-allocation layout *)
(* of channel and call stacks, their init/destroy protocols, operation     *)
(* propagation between neighbouring elements and owner recovery.           *)
(*                                                                         *)
(* Addresses are natural numbers (byte addresses).  A stack is a header    *)
(* followed by its element table followed by the per-filter data regions.  *)
(* Filter hooks are external code: the model records every invocation the  *)
(* core makes (which hook, on which element, with which arguments).        *)
(***************************************************************************)
EXTENDS Integers, Sequences, FiniteSets, TLC

\* ---------------------------------------------------------------- bounds
MaxFilters == 3        \* longest filter list explored
NumCalls == 1          \* call stacks built on the channel stack
ThreadedCalls == 2     \* call stacks driven concurrently, one thread each
WordBits == 12         \* bits kept of a size_t in the bitwise rounding
StackSpacing == 1024   \* distance between the buffers the caller allocates

\* ------------------------------------------------------------- platforms
\* sizeof() of the four structs and GPR_MAX_ALIGNMENT, per platform
Platforms ==
  { [name |-> "ILP32", GPR_MAX_ALIGNMENT |-> 16, sizeof_channel_stack |-> 8,
     sizeof_channel_element |-> 8, sizeof_call_stack |-> 4,
     sizeof_call_element |-> 12],
    [name |-> "LP64", GPR_MAX_ALIGNMENT |-> 16, sizeof_channel_stack |-> 16,
     sizeof_channel_element |-> 16, sizeof_call_stack |-> 8,
     sizeof_call_element |-> 24] }

\* ------------------------------------------------------ filter descriptors
\* The grpc_channel_filter descriptors a list may point to: the declared data
\* sizes, and whether the filter's operation handlers forward what they get
\* to the neighbour (a pass-through filter) or consume it (a terminal one).
FilterTable ==
  <<[sizeof_channel_data |-> 8,  sizeof_call_data |-> 4, forwards |-> TRUE],
    [sizeof_channel_data |-> 0,  sizeof_call_data |-> 4, forwards |-> TRUE],
    [sizeof_channel_data |-> 16, sizeof_call_data |-> 0, forwards |-> FALSE],
    [sizeof_channel_data |-> 5,  sizeof_call_data |-> 3, forwards |-> TRUE]>>

FilterRefs == 1..Len(FilterTable)

RECURSIVE SeqsUpTo(_, _)
SeqsUpTo(S, n) ==
  IF n = 0 THEN {<<>>}
  ELSE LET prev == SeqsUpTo(S, n - 1)
       IN  prev \cup {Append(s, x) : s \in {t \in prev : Len(t) = n - 1}, x \in S}

FilterLists == SeqsUpTo(FilterRefs, MaxFilters)

GRPC_STATUS_OK == 0
GRPC_STATUS_CANCELLED == 1

\* a slot of caller-provided memory the core has not written yet
Uninit == 0 - 1

VARIABLES
  sched,      \* "single": one thread drives every stack; "threads": one per call
  plat,       \* the platform the code was built for
  filters,    \* the filter list handed to size/init (sequence of FilterRefs)
  allocated,  \* bytes the caller allocated for the channel stack (Uninit: none)
  chan,       \* channel stack memory: header fields and element table
  cst,        \* grpc_channel_stack_init / _destroy: position and locals
  calls,      \* call stack memory, per call
  kst,        \* grpc_call_stack_init / _destroy: position and locals, per call
  chanLog,    \* channel lifecycle hooks invoked by the core, in order
  callLog,    \* call lifecycle hooks invoked by the core, per call, in order
  chanOp,     \* the channel operation being propagated (<<>> when none)
  callOp,     \* the transport operation being propagated, per call
  probe,      \* last result of an accessor / owner-recovery call
  fault       \* "none", or how the process ended or left defined behaviour

vars == <<sched, plat, filters, allocated, chan, cst, calls, kst, chanLog, callLog,
          chanOp, callOp, probe, fault>>

Calls == DOMAIN kst

\* ------------------------------------------------------------ arithmetic
RECURSIVE Pow2(_)
Pow2(n) == IF n = 0 THEN 1 ELSE 2 * Pow2(n - 1)

WordMod == Pow2(WordBits)

RECURSIVE BitAnd(_, _, _)
BitAnd(a, b, n) ==
  IF n = 0 \/ a = 0 \/ b = 0 THEN 0
  ELSE (a % 2) * (b % 2) + 2 * BitAnd(a \div 2, b \div 2, n - 1)

BitNot(a) == WordMod - 1 - a

\* (((x) + GPR_MAX_ALIGNMENT - 1) & ~(GPR_MAX_ALIGNMENT - 1))
ROUND_UP_TO_ALIGNMENT_SIZE(p, x) ==
  BitAnd((x + p.GPR_MAX_ALIGNMENT - 1) % WordMod,
         BitNot(p.GPR_MAX_ALIGNMENT - 1), WordBits)

RECURSIVE SumChannelData(_, _, _)
SumChannelData(p, fl, k) ==
  IF k = 0 THEN 0
  ELSE SumChannelData(p, fl, k - 1)
       + ROUND_UP_TO_ALIGNMENT_SIZE(p, FilterTable[fl[k]].sizeof_channel_data)

grpc_channel_stack_size(p, fl, filter_count) ==
  ROUND_UP_TO_ALIGNMENT_SIZE(p, p.sizeof_channel_stack)
  + ROUND_UP_TO_ALIGNMENT_SIZE(p, filter_count * p.sizeof_channel_element)
  + SumChannelData(p, fl, filter_count)

\* --------------------------------------------------------------- layout
ChannelStackAddr == StackSpacing
CallStackAddr(c) == (c + 1) * StackSpacing

CHANNEL_ELEMS_FROM_STACK(p, stk) ==
  stk + ROUND_UP_TO_ALIGNMENT_SIZE(p, p.sizeof_channel_stack)

CALL_ELEMS_FROM_STACK(p, stk) ==
  stk + ROUND_UP_TO_ALIGNMENT_SIZE(p, p.sizeof_call_stack)

grpc_channel_stack_element(p, channel_stack, index) ==
  CHANNEL_ELEMS_FROM_STACK(p, channel_stack) + index * p.sizeof_channel_element

grpc_call_stack_element(p, call_stack, index) ==
  CALL_ELEMS_FROM_STACK(p, call_stack) + index * p.sizeof_call_element

\* bug variant: the header size is subtracted without its padding
grpc_channel_stack_from_top_element_Unpadded(p, elem) ==
  elem - p.sizeof_channel_stack

grpc_channel_stack_from_top_element(p, elem) ==
  elem - ROUND_UP_TO_ALIGNMENT_SIZE(p, p.sizeof_channel_stack)

grpc_call_stack_from_top_element(p, elem) ==
  elem - ROUND_UP_TO_ALIGNMENT_SIZE(p, p.sizeof_call_stack)


\* index of the channel element slot at address a (Uninit: a is no slot)
ChannelElemIndex(p, a) ==
  LET off == a - CHANNEL_ELEMS_FROM_STACK(p, ChannelStackAddr)
  IN  IF off >= 0 /\ off % p.sizeof_channel_element = 0
         /\ off \div p.sizeof_channel_element < Len(filters)
      THEN off \div p.sizeof_channel_element ELSE Uninit

CallElemIndex(p, c, a) ==
  LET off == a - CALL_ELEMS_FROM_STACK(p, CallStackAddr(c))
  IN  IF off >= 0 /\ off % p.sizeof_call_element = 0
         /\ off \div p.sizeof_call_element < Len(filters)
      THEN off \div p.sizeof_call_element ELSE Uninit

\* ----------------------------------------------------------- operations
\* grpc_transport_op after memset(&op, 0, sizeof(op))
ZeroTransportOp ==
  [send_ops |-> 0, recv_ops |-> 0, cancel_with_status |-> GRPC_STATUS_OK]

TransportOps ==
  { [ZeroTransportOp EXCEPT !.send_ops = 1],
    [ZeroTransportOp EXCEPT !.recv_ops = 1] }

GRPC_CALL_DOWN == 1
GRPC_CALL_UP == 0 - 1

ChannelOps == { [dir |-> GRPC_CALL_DOWN], [dir |-> GRPC_CALL_UP] }

\* the grpc_status_code and message values handed to status delivery
StatusCodes == {GRPC_STATUS_OK, GRPC_STATUS_CANCELLED}
StatusMessages == {"", "deadline exceeded"}

\* what a call through a pointer read from memory the core never wrote can do
UndefinedOutcomes == {"crash", "wild_call"}

\* one hook invocation ("call") or its return ("ret") as the core makes it
HookEvent(ev, hook, elem, filter, is_head, is_tail) ==
  [ev |-> ev, hook |-> hook, elem |-> elem, filter |-> filter,
   is_head |-> is_head, is_tail |-> is_tail]


\* ------------------------------------------- steps of the init/destroy loops
\* bug variant: the element table is sized for one element
ChannelUserDataStart_OneElement(p, elems, filter_count) ==
  elems + ROUND_UP_TO_ALIGNMENT_SIZE(p, p.sizeof_channel_element)

\* user_data = ((char *)elems) + ROUND_UP(filter_count * sizeof(element))
ChannelUserDataStart(p, elems, filter_count) ==
  elems + ROUND_UP_TO_ALIGNMENT_SIZE(p, filter_count * p.sizeof_channel_element)

\* bug variant: the cursor advances by the filter's call-data size
ChannelUserDataAdvance_CallData(p, user_data, f) ==
  user_data + ROUND_UP_TO_ALIGNMENT_SIZE(p, f.sizeof_call_data)

\* bug variant: the cursor advances by the declared size, not rounded up
ChannelUserDataAdvance_Unrounded(p, user_data, f) ==
  user_data + f.sizeof_channel_data

\* user_data += ROUND_UP_TO_ALIGNMENT_SIZE(filters[i]->sizeof_channel_data)
ChannelUserDataAdvance(p, user_data, f) ==
  user_data + ROUND_UP_TO_ALIGNMENT_SIZE(p, f.sizeof_channel_data)

\* bug variant: the init loop walks the table from the tail
ChannelInitElem_Reversed(p, stack, i, filter_count) ==
  grpc_channel_stack_element(p, stack, filter_count - 1 - i)

\* bug variant: the per-call total is stored before the loop has summed it
ChannelHeaderAtInitBegin_StoresCallSize(header, filter_count, call_size) ==
  [header EXCEPT !.count = filter_count, !.call_stack_size = call_size]

\* stack->count = filter_count, the only header store before the loop
ChannelHeaderAtInitBegin(header, filter_count, call_size) ==
  [header EXCEPT !.count = filter_count]

\* bug variant: the per-call total is grown by the channel-data size
CallSizeAdvance_ChannelData(p, call_size, f) ==
  call_size + ROUND_UP_TO_ALIGNMENT_SIZE(p, f.sizeof_channel_data)

\* call_size += ROUND_UP_TO_ALIGNMENT_SIZE(filters[i]->sizeof_call_data)
CallSizeAdvance(p, call_size, f) ==
  call_size + ROUND_UP_TO_ALIGNMENT_SIZE(p, f.sizeof_call_data)

\* &elems[i], the slot grpc_channel_stack_init fills and hands to the hook
ChannelInitElem(p, stack, i, filter_count) ==
  grpc_channel_stack_element(p, stack, i)

\* bug variant: off-by-one tail test
IsTail_OffByOne(i, filter_count) == i = filter_count

\* the is_tail argument: i == (filter_count - 1)
IsTail(i, filter_count) == i = filter_count - 1

\* bug variant: destroy walks the table in reverse of init
ChannelDestroyElem_Reversed(p, stack, i, count) ==
  grpc_channel_stack_element(p, stack, count - 1 - i)

\* &channel_elems[i], the slot grpc_channel_stack_destroy hands to the hook
ChannelDestroyElem(p, stack, i, count) ==
  grpc_channel_stack_element(p, stack, i)

\* bug variant: channel_data is pointed at the call's own user data
InitCallElem_OwnData(channel_elem, user_data) ==
  [filter |-> channel_elem.filter,
   channel_data |-> user_data,
   call_data |-> user_data]

\* the three stores into call_elems[i]
InitCallElem(channel_elem, user_data) ==
  [filter |-> channel_elem.filter,
   channel_data |-> channel_elem.channel_data,
   call_data |-> user_data]

\* bug variant: the cursor is started from the channel stack's element table
CallUserDataStart_FromChannelElems(p, call_elems, count) ==
  CHANNEL_ELEMS_FROM_STACK(p, ChannelStackAddr)
    + ROUND_UP_TO_ALIGNMENT_SIZE(p, count * p.sizeof_call_element)

\* user_data = ((char *)call_elems) + ROUND_UP(count * sizeof(grpc_call_element))
CallUserDataStart(p, call_elems, count) ==
  call_elems + ROUND_UP_TO_ALIGNMENT_SIZE(p, count * p.sizeof_call_element)

\* bug variant: the call-data cursor advances by the declared size
CallUserDataAdvance_Unrounded(p, user_data, f) ==
  user_data + f.sizeof_call_data

\* user_data += ROUND_UP_TO_ALIGNMENT_SIZE(call_elems[i].filter->sizeof_call_data)
CallUserDataAdvance(p, user_data, f) ==
  user_data + ROUND_UP_TO_ALIGNMENT_SIZE(p, f.sizeof_call_data)

\* bug variant: the pointer is advanced by two elements
NextCallElem_SkipsOne(p, elem) == elem + 2 * p.sizeof_call_element

\* grpc_call_element *next_elem = elem + 1
NextCallElem(p, elem) == elem + p.sizeof_call_element

\* bug variant: the direction of the operation is ignored
NextChannelElem_IgnoreDir(p, elem, op) == elem + p.sizeof_channel_element

\* grpc_channel_element *next_elem = elem + op->dir
NextChannelElem(p, elem, op) == elem + op.dir * p.sizeof_channel_element

\* bug variant: the status is never stored
CancelOp_StatusNotSet == ZeroTransportOp

\* bug variant: the operation is not cleared before the status is stored
CancelOp_NotZeroed ==
  [send_ops |-> 1, recv_ops |-> 1, cancel_with_status |-> GRPC_STATUS_CANCELLED]

\* memset(&op, 0, sizeof(op)); op.cancel_with_status = GRPC_STATUS_CANCELLED
CancelOp ==
  [ZeroTransportOp EXCEPT !.cancel_with_status = GRPC_STATUS_CANCELLED]

\* ----------------------------------------------------------------- Init
NoLocals == [pc |-> "start", i |-> 0, count |-> 0, user_data |-> 0, call_size |-> 0]

InitWith(lists, ncalls, mode) ==
  /\ sched = mode
  /\ plat \in Platforms
  /\ filters \in lists
  /\ allocated = Uninit
  /\ chan = [count |-> Uninit, call_stack_size |-> Uninit,
             elems |-> [i \in 0..(Len(filters) - 1) |->
                          [filter |-> Uninit, channel_data |-> Uninit]]]
  /\ cst = NoLocals
  /\ calls = [c \in 1..ncalls |->
               [count |-> Uninit,
                elems |-> [i \in 0..(Len(filters) - 1) |->
                            [filter |-> Uninit, channel_data |-> Uninit,
                             call_data |-> Uninit]]]]
  /\ kst = [c \in 1..ncalls |-> NoLocals]
  /\ chanLog = <<>>
  /\ callLog = [c \in 1..ncalls |-> <<>>]
  /\ chanOp = <<>>
  /\ callOp = [c \in 1..ncalls |-> <<>>]
  /\ probe = <<>>
  /\ fault = "none"

Init == InitWith(FilterLists, NumCalls, "single")

\* no core function is executing: the caller may start the next one
Idle ==
  /\ fault = "none"
  /\ cst.pc \in {"start", "allocated", "ready", "destroyed"}
  /\ \A c \in Calls : kst[c].pc \in {"start", "ready", "destroyed"}
  /\ chanOp = <<>>
  /\ \A c \in Calls : callOp[c] = <<>>
  /\ probe = <<>>

\* the thread driving call stack c may enter a core function on it: with one
\* thread nothing else is running; with a thread per call only that call's
\* own thread must be outside the core, the channel stack must be live and
\* the channel's owner must not be inside a channel-scoped call
CallIdle(c) ==
  IF sched = "single" THEN Idle
  ELSE /\ fault = "none"
       /\ cst.pc = "ready"
       /\ chanOp = <<>>
       /\ probe = <<>>
       /\ kst[c].pc \in {"start", "ready", "destroyed"}
       /\ callOp[c] = <<>>

\* ------------------------------------------------ channel stack lifecycle
\* the caller sizes the buffer with grpc_channel_stack_size and allocates it
ChannelStackSize ==
  /\ Idle /\ cst.pc = "start"
  /\ IF BitAnd(plat.GPR_MAX_ALIGNMENT, plat.GPR_MAX_ALIGNMENT - 1, WordBits) = 0
     THEN /\ allocated' = grpc_channel_stack_size(plat, filters, Len(filters))
          /\ cst' = [cst EXCEPT !.pc = "allocated"]
          /\ fault' = fault
     ELSE /\ fault' = "assert_failed"
          /\ UNCHANGED <<allocated, cst>>
  /\ UNCHANGED <<sched, plat, filters, chan, calls, kst, chanLog, callLog, chanOp,
                 callOp, probe>>

\* grpc_channel_stack_init up to the loop
ChannelStackInitBegin ==
  /\ Idle /\ cst.pc = "allocated"
  /\ LET filter_count == Len(filters)
         elems == CHANNEL_ELEMS_FROM_STACK(plat, ChannelStackAddr)
     IN  /\ chan' = ChannelHeaderAtInitBegin(chan, filter_count,
                      ROUND_UP_TO_ALIGNMENT_SIZE(plat, plat.sizeof_call_stack)
                      + ROUND_UP_TO_ALIGNMENT_SIZE(plat,
                          filter_count * plat.sizeof_call_element))
         /\ cst' = [pc |-> "init_loop", i |-> 0, count |-> filter_count,
                    user_data |-> ChannelUserDataStart(plat, elems, filter_count),
                    call_size |->
                      ROUND_UP_TO_ALIGNMENT_SIZE(plat, plat.sizeof_call_stack)
                      + ROUND_UP_TO_ALIGNMENT_SIZE(plat,
                          filter_count * plat.sizeof_call_element)]
  /\ UNCHANGED <<sched, plat, filters, allocated, calls, kst, chanLog, callLog,
                 chanOp, callOp, probe, fault>>

\* loop body up to and including the call of init_channel_elem
ChannelInitCallHook ==
  /\ fault = "none" /\ cst.pc = "init_loop" /\ cst.i < cst.count
  /\ LET i == cst.i
         elem == ChannelInitElem(plat, ChannelStackAddr, i, cst.count)
         slot == ChannelElemIndex(plat, elem)
     IN  /\ chan' = [chan EXCEPT !.elems[slot] =
                       [filter |-> filters[i + 1], channel_data |-> cst.user_data]]
         /\ chanLog' = Append(chanLog,
                         HookEvent("call", "init_channel_elem", elem,
                                   filters[i + 1], i = 0, IsTail(i, cst.count)))
  /\ cst' = [cst EXCEPT !.pc = "init_hook"]
  /\ UNCHANGED <<sched, plat, filters, allocated, calls, kst, callLog, chanOp,
                 callOp, probe, fault>>

\* the hook returns; rest of the loop body
ChannelInitHookReturn ==
  /\ fault = "none" /\ cst.pc = "init_hook" /\ probe = <<>>
  /\ LET i == cst.i
         elem == ChannelInitElem(plat, ChannelStackAddr, i, cst.count)
         f == FilterTable[filters[i + 1]]
     IN  /\ chanLog' = Append(chanLog,
                         HookEvent("ret", "init_channel_elem", elem,
                                   filters[i + 1], FALSE, FALSE))
         /\ cst' = [cst EXCEPT
                      !.pc = "init_loop",
                      !.i = i + 1,
                      !.user_data = ChannelUserDataAdvance(plat, cst.user_data, f),
                      !.call_size = CallSizeAdvance(plat, cst.call_size, f)]
  /\ UNCHANGED <<sched, plat, filters, allocated, chan, calls, kst, callLog, chanOp,
                 callOp, probe, fault>>

\* the running init_channel_elem hook recovers the stack header from its own
\* element pointer (to read count or call_stack_size from it)
ChannelInitHookOwnerRecovery ==
  /\ fault = "none" /\ cst.pc = "init_hook" /\ probe = <<>>
  /\ LET elem == ChannelInitElem(plat, ChannelStackAddr, cst.i, cst.count)
     IN  probe' = <<[kind |-> "channel", stack |-> ChannelStackAddr,
                     index |-> cst.i, elem |-> elem,
                     owner |-> grpc_channel_stack_from_top_element(plat, elem)]>>
  /\ UNCHANGED <<sched, plat, filters, allocated, chan, cst, calls, kst, chanLog,
                 callLog, chanOp, callOp, fault>>

\* after the loop: the two assertions, then the store of call_stack_size
ChannelStackInitEnd ==
  /\ fault = "none" /\ cst.pc = "init_loop" /\ cst.i = cst.count
  /\ IF /\ cst.user_data > ChannelStackAddr
        /\ cst.user_data - ChannelStackAddr
             = grpc_channel_stack_size(plat, filters, Len(filters))
     THEN /\ chan' = [chan EXCEPT !.call_stack_size = cst.call_size]
          /\ cst' = [cst EXCEPT !.pc = "ready"]
          /\ fault' = fault
     ELSE /\ fault' = "assert_failed"
          /\ UNCHANGED <<chan, cst>>
  /\ UNCHANGED <<sched, plat, filters, allocated, calls, kst, chanLog, callLog,
                 chanOp, callOp, probe>>

\* grpc_channel_stack_destroy up to the loop
ChannelStackDestroyBegin ==
  /\ Idle /\ cst.pc = "ready"
  /\ \A c \in Calls : kst[c].pc \in {"start", "destroyed"}
  /\ cst' = [cst EXCEPT !.pc = "destroy_loop", !.i = 0, !.count = chan.count]
  /\ UNCHANGED <<sched, plat, filters, allocated, chan, calls, kst, chanLog, callLog,
                 chanOp, callOp, probe, fault>>

ChannelDestroyCallHook ==
  /\ fault = "none" /\ cst.pc = "destroy_loop" /\ cst.i < cst.count
  /\ LET i == cst.i
         elem == ChannelDestroyElem(plat, ChannelStackAddr, i, cst.count)
     IN  chanLog' = Append(chanLog,
                      HookEvent("call", "destroy_channel_elem", elem,
                                chan.elems[ChannelElemIndex(plat, elem)].filter,
                                FALSE, FALSE))
  /\ cst' = [cst EXCEPT !.pc = "destroy_hook"]
  /\ UNCHANGED <<sched, plat, filters, allocated, chan, calls, kst, callLog, chanOp,
                 callOp, probe, fault>>

ChannelDestroyHookReturn ==
  /\ fault = "none" /\ cst.pc = "destroy_hook"
  /\ LET i == cst.i
         elem == ChannelDestroyElem(plat, ChannelStackAddr, i, cst.count)
     IN  chanLog' = Append(chanLog,
                      HookEvent("ret", "destroy_channel_elem", elem,
                                chan.elems[ChannelElemIndex(plat, elem)].filter,
                                FALSE, FALSE))
  /\ cst' = [cst EXCEPT !.pc = "destroy_loop", !.i = cst.i + 1]
  /\ UNCHANGED <<sched, plat, filters, allocated, chan, calls, kst, callLog, chanOp,
                 callOp, probe, fault>>

\* bug variant: destroy also clears the header it was handed
ChannelStackDestroyEnd_ClearsHeader ==
  /\ fault = "none" /\ cst.pc = "destroy_loop" /\ cst.i = cst.count
  /\ cst' = [cst EXCEPT !.pc = "destroyed"]
  /\ chan' = [chan EXCEPT !.count = 0, !.call_stack_size = 0]
  /\ UNCHANGED <<sched, plat, filters, allocated, calls, kst, chanLog, callLog,
                 chanOp, callOp, probe, fault>>

ChannelStackDestroyEnd ==
  /\ fault = "none" /\ cst.pc = "destroy_loop" /\ cst.i = cst.count
  /\ cst' = [cst EXCEPT !.pc = "destroyed"]
  /\ UNCHANGED <<sched, plat, filters, allocated, chan, calls, kst, chanLog, callLog,
                 chanOp, callOp, probe, fault>>


\* --------------------------------------------------- call stack lifecycle
\* grpc_call_stack_init up to the loop; the buffer holds call_stack_size bytes
CallStackInitBegin(c) ==
  /\ CallIdle(c) /\ cst.pc = "ready" /\ kst[c].pc = "start"
  /\ LET count == chan.count
         call_elems == CALL_ELEMS_FROM_STACK(plat, CallStackAddr(c))
     IN  /\ calls' = [calls EXCEPT ![c].count = count]
         /\ kst' = [kst EXCEPT ![c] =
                      [pc |-> "init_loop", i |-> 0, count |-> count,
                       user_data |-> CallUserDataStart(plat, call_elems, count),
                       call_size |-> 0]]
  /\ UNCHANGED <<sched, plat, filters, allocated, chan, cst, chanLog, callLog,
                 chanOp, callOp, probe, fault>>

CallInitCallHook(c) ==
  /\ fault = "none" /\ kst[c].pc = "init_loop" /\ kst[c].i < kst[c].count
  /\ LET i == kst[c].i
         elem == grpc_call_stack_element(plat, CallStackAddr(c), i)
     IN  /\ calls' = [calls EXCEPT ![c].elems[i] =
                        InitCallElem(chan.elems[i], kst[c].user_data)]
         /\ callLog' = [callLog EXCEPT ![c] = Append(@,
                          HookEvent("call", "init_call_elem", elem,
                                    calls'[c].elems[i].filter, FALSE, FALSE))]
  /\ kst' = [kst EXCEPT ![c].pc = "init_hook"]
  /\ UNCHANGED <<sched, plat, filters, allocated, chan, cst, chanLog, chanOp,
                 callOp, probe, fault>>

CallInitHookReturn(c) ==
  /\ fault = "none" /\ kst[c].pc = "init_hook" /\ callOp[c] = <<>>
  /\ LET i == kst[c].i
         elem == grpc_call_stack_element(plat, CallStackAddr(c), i)
         f == FilterTable[calls[c].elems[i].filter]
     IN  /\ callLog' = [callLog EXCEPT ![c] = Append(@,
                          HookEvent("ret", "init_call_elem", elem,
                                    calls[c].elems[i].filter, FALSE, FALSE))]
         /\ kst' = [kst EXCEPT
                      ![c].pc = "init_loop",
                      ![c].i = i + 1,
                      ![c].user_data = CallUserDataAdvance(plat, kst[c].user_data, f)]
  /\ UNCHANGED <<sched, plat, filters, allocated, chan, cst, calls, chanLog, chanOp,
                 callOp, probe, fault>>

CallStackInitEnd(c) ==
  /\ fault = "none" /\ kst[c].pc = "init_loop" /\ kst[c].i = kst[c].count
  /\ kst' = [kst EXCEPT ![c].pc = "ready"]
  /\ UNCHANGED <<sched, plat, filters, allocated, chan, cst, calls, chanLog, callLog,
                 chanOp, callOp, probe, fault>>

CallStackDestroyBegin(c) ==
  /\ CallIdle(c) /\ kst[c].pc = "ready"
  /\ kst' = [kst EXCEPT ![c].pc = "destroy_loop", ![c].i = 0,
                        ![c].count = calls[c].count]
  /\ UNCHANGED <<sched, plat, filters, allocated, chan, cst, calls, chanLog, callLog,
                 chanOp, callOp, probe, fault>>

CallDestroyCallHook(c) ==
  /\ fault = "none" /\ kst[c].pc = "destroy_loop" /\ kst[c].i < kst[c].count
  /\ LET i == kst[c].i
         elem == grpc_call_stack_element(plat, CallStackAddr(c), i)
     IN  callLog' = [callLog EXCEPT ![c] = Append(@,
                       HookEvent("call", "destroy_call_elem", elem,
                                 calls[c].elems[i].filter, FALSE, FALSE))]
  /\ kst' = [kst EXCEPT ![c].pc = "destroy_hook"]
  /\ UNCHANGED <<sched, plat, filters, allocated, chan, cst, calls, chanLog, chanOp,
                 callOp, probe, fault>>

CallDestroyHookReturn(c) ==
  /\ fault = "none" /\ kst[c].pc = "destroy_hook"
  /\ LET i == kst[c].i
         elem == grpc_call_stack_element(plat, CallStackAddr(c), i)
     IN  callLog' = [callLog EXCEPT ![c] = Append(@,
                       HookEvent("ret", "destroy_call_elem", elem,
                                 calls[c].elems[i].filter, FALSE, FALSE))]
  /\ kst' = [kst EXCEPT ![c].pc = "destroy_loop", ![c].i = kst[c].i + 1]
  /\ UNCHANGED <<sched, plat, filters, allocated, chan, cst, calls, chanLog, chanOp,
                 callOp, probe, fault>>

CallStackDestroyEnd(c) ==
  /\ fault = "none" /\ kst[c].pc = "destroy_loop" /\ kst[c].i = kst[c].count
  /\ kst' = [kst EXCEPT ![c].pc = "destroyed"]
  /\ UNCHANGED <<sched, plat, filters, allocated, chan, cst, calls, chanLog, callLog,
                 chanOp, callOp, probe, fault>>

\* ------------------------------------------------- operation propagation
\* grpc_call_next_op(elem, op): the delivery it makes.  via/start/path record
\* which entry point began the propagation, at which element, and the
\* elements whose handler has been invoked since.  A slot outside the table,
\* or one init has not filled yet, holds no filter pointer the core wrote.
CallNextOpDelivery(c, elem, op, via, start, path) ==
  LET next_elem == NextCallElem(plat, elem)
      idx == CallElemIndex(plat, c, next_elem)
  IN  IF idx # Uninit /\ calls[c].elems[idx].filter # Uninit
      THEN /\ callOp' = [callOp EXCEPT ![c] =
                  <<[handler |-> "start_transport_op", elem |-> next_elem,
                     from |-> elem, filter |-> calls[c].elems[idx].filter,
                     op |-> op, via |-> via, start |-> start,
                     path |-> Append(path, next_elem)]>>]
           /\ fault' = fault
      ELSE /\ fault' \in UndefinedOutcomes
           /\ callOp' = [callOp EXCEPT ![c] =
                  <<[handler |-> "start_transport_op", elem |-> next_elem,
                     from |-> elem, filter |-> Uninit,
                     op |-> op, via |-> via, start |-> start,
                     path |-> Append(path, next_elem)]>>]

\* the running init_call_elem hook passes initial_op on with grpc_call_next_op
CallInitHookNextOp(c, initial_op) ==
  /\ fault = "none" /\ kst[c].pc = "init_hook" /\ callOp[c] = <<>>
  /\ LET elem == grpc_call_stack_element(plat, CallStackAddr(c), kst[c].i)
     IN  CallNextOpDelivery(c, elem, initial_op, "init_call_elem", elem, <<>>)
  /\ UNCHANGED <<sched, plat, filters, allocated, chan, cst, calls, kst, chanLog,
                 callLog, chanOp, probe>>

\* grpc_call_next_op called on element i of a live call stack
CallNextOp(c, i, op) ==
  /\ CallIdle(c) /\ kst[c].pc = "ready"
  /\ LET elem == grpc_call_stack_element(plat, CallStackAddr(c), i)
     IN  CallNextOpDelivery(c, elem, op, "grpc_call_next_op", elem, <<>>)
  /\ UNCHANGED <<sched, plat, filters, allocated, chan, cst, calls, kst, chanLog,
                 callLog, chanOp, probe>>

\* grpc_call_element_send_cancel(cur_elem)
CallElementSendCancel(c, i) ==
  /\ CallIdle(c) /\ kst[c].pc = "ready"
  /\ LET cur_elem == grpc_call_stack_element(plat, CallStackAddr(c), i)
     IN  CallNextOpDelivery(c, cur_elem, CancelOp, "grpc_call_element_send_cancel",
                            cur_elem, <<>>)
  /\ UNCHANGED <<sched, plat, filters, allocated, chan, cst, calls, kst, chanLog,
                 callLog, chanOp, probe>>

\* bug variant: the status is delivered as an operation to the next element
CallElementRecvStatus_Propagates(c, i, status, message) ==
  /\ CallIdle(c) /\ kst[c].pc = "ready"
  /\ LET cur_elem == grpc_call_stack_element(plat, CallStackAddr(c), i)
     IN  CallNextOpDelivery(c, cur_elem,
                            [ZeroTransportOp EXCEPT !.cancel_with_status = status],
                            "grpc_call_element_recv_status", cur_elem, <<>>)
  /\ UNCHANGED <<sched, plat, filters, allocated, chan, cst, calls, kst, chanLog,
                 callLog, chanOp, probe>>

\* grpc_call_element_recv_status(cur_elem, status, message): abort()
CallElementRecvStatus(c, i, status, message) ==
  /\ CallIdle(c) /\ kst[c].pc = "ready"
  /\ fault' = "abort"
  /\ UNCHANGED <<sched, plat, filters, allocated, chan, cst, calls, kst, chanLog,
                 callLog, chanOp, callOp, probe>>

\* the running start_transport_op handler forwards with grpc_call_next_op
TransportOpHandlerForward(c) ==
  /\ fault = "none" /\ callOp[c] # <<>>
  /\ LET cur == callOp[c][1]
     IN  /\ FilterTable[cur.filter].forwards
         /\ CallNextOpDelivery(c, cur.elem, cur.op, cur.via, cur.start, cur.path)
  /\ UNCHANGED <<sched, plat, filters, allocated, chan, cst, calls, kst, chanLog,
                 callLog, chanOp, probe>>

\* the running start_transport_op handler consumes the operation and returns
TransportOpHandlerReturn(c) ==
  /\ fault = "none" /\ callOp[c] # <<>>
  /\ ~FilterTable[callOp[c][1].filter].forwards
  /\ callOp' = [callOp EXCEPT ![c] = <<>>]
  /\ UNCHANGED <<sched, plat, filters, allocated, chan, cst, calls, kst, chanLog,
                 callLog, chanOp, probe, fault>>

\* grpc_channel_next_op(elem, op): the delivery it makes
ChannelNextOpDelivery(elem, op, start, path) ==
  LET next_elem == NextChannelElem(plat, elem, op)
      idx == ChannelElemIndex(plat, next_elem)
  IN  IF idx # Uninit
      THEN /\ chanOp' = <<[handler |-> "channel_op", elem |-> next_elem,
                           from |-> elem, filter |-> chan.elems[idx].filter,
                           op |-> op, start |-> start,
                           path |-> Append(path, next_elem)]>>
           /\ fault' = fault
      ELSE /\ fault' \in UndefinedOutcomes
           /\ chanOp' = <<[handler |-> "channel_op", elem |-> next_elem,
                           from |-> elem, filter |-> Uninit,
                           op |-> op, start |-> start,
                           path |-> Append(path, next_elem)]>>

ChannelNextOp(i, op) ==
  /\ Idle /\ cst.pc = "ready"
  /\ LET elem == grpc_channel_stack_element(plat, ChannelStackAddr, i)
     IN  ChannelNextOpDelivery(elem, op, elem, <<>>)
  /\ UNCHANGED <<sched, plat, filters, allocated, chan, cst, calls, kst, chanLog,
                 callLog, callOp, probe>>

ChannelOpHandlerForward ==
  /\ fault = "none" /\ chanOp # <<>>
  /\ LET cur == chanOp[1]
     IN  /\ FilterTable[cur.filter].forwards
         /\ ChannelNextOpDelivery(cur.elem, cur.op, cur.start, cur.path)
  /\ UNCHANGED <<sched, plat, filters, allocated, chan, cst, calls, kst, chanLog,
                 callLog, callOp, probe>>

ChannelOpHandlerReturn ==
  /\ fault = "none" /\ chanOp # <<>>
  /\ ~FilterTable[chanOp[1].filter].forwards
  /\ chanOp' = <<>>
  /\ UNCHANGED <<sched, plat, filters, allocated, chan, cst, calls, kst, chanLog,
                 callLog, callOp, probe, fault>>

\* --------------------------------------------- accessors, owner recovery
\* a caller obtains element `index` of the channel stack from the accessor
ChannelStackElement(index) ==
  /\ Idle /\ cst.pc = "ready"
  /\ probe' = <<[kind |-> "channel", stack |-> ChannelStackAddr,
                 index |-> index,
                 elem |-> grpc_channel_stack_element(plat, ChannelStackAddr, index),
                 owner |-> Uninit]>>
  /\ UNCHANGED <<sched, plat, filters, allocated, chan, cst, calls, kst, chanLog,
                 callLog, chanOp, callOp, fault>>

\* grpc_channel_stack_last_element
ChannelStackLastElement ==
  /\ Idle /\ cst.pc = "ready" /\ chan.count > 0
  /\ probe' = <<[kind |-> "channel", stack |-> ChannelStackAddr,
                 index |-> chan.count - 1,
                 elem |-> grpc_channel_stack_element(plat, ChannelStackAddr,
                                                     chan.count - 1),
                 owner |-> Uninit]>>
  /\ UNCHANGED <<sched, plat, filters, allocated, chan, cst, calls, kst, chanLog,
                 callLog, chanOp, callOp, fault>>

CallStackElement(c, index) ==
  /\ Idle /\ kst[c].pc = "ready"
  /\ probe' = <<[kind |-> "call", stack |-> CallStackAddr(c), index |-> index,
                 elem |-> grpc_call_stack_element(plat, CallStackAddr(c), index),
                 owner |-> Uninit]>>
  /\ UNCHANGED <<sched, plat, filters, allocated, chan, cst, calls, kst, chanLog,
                 callLog, chanOp, callOp, fault>>

\* the holder of the element pointer asks for the enclosing stack header
ChannelStackFromTopElement ==
  /\ fault = "none" /\ probe # <<>>
  /\ probe[1].kind = "channel" /\ probe[1].owner = Uninit
  /\ probe' = <<[probe[1] EXCEPT !.owner =
                   grpc_channel_stack_from_top_element(plat, probe[1].elem)]>>
  /\ UNCHANGED <<sched, plat, filters, allocated, chan, cst, calls, kst, chanLog,
                 callLog, chanOp, callOp, fault>>

CallStackFromTopElement ==
  /\ fault = "none" /\ probe # <<>>
  /\ probe[1].kind = "call" /\ probe[1].owner = Uninit
  /\ probe' = <<[probe[1] EXCEPT !.owner =
                   grpc_call_stack_from_top_element(plat, probe[1].elem)]>>
  /\ UNCHANGED <<sched, plat, filters, allocated, chan, cst, calls, kst, chanLog,
                 callLog, chanOp, callOp, fault>>

\* the caller is done with the pointers it obtained
ReleaseElement ==
  /\ fault = "none" /\ probe # <<>> /\ probe[1].owner # Uninit
  /\ probe' = <<>>
  /\ UNCHANGED <<sched, plat, filters, allocated, chan, cst, calls, kst, chanLog,
                 callLog, chanOp, callOp, fault>>

\* ---------------------------------------------------------------- Next
Next ==
  \/ ChannelStackSize
  \/ ChannelStackInitBegin
  \/ ChannelInitCallHook
  \/ ChannelInitHookReturn
  \/ ChannelInitHookOwnerRecovery
  \/ ChannelStackInitEnd
  \/ ChannelStackDestroyBegin
  \/ ChannelDestroyCallHook
  \/ ChannelDestroyHookReturn
  \/ ChannelStackDestroyEnd
  \/ \E c \in Calls : CallStackInitBegin(c)
  \/ \E c \in Calls : CallInitCallHook(c)
  \/ \E c \in Calls : CallInitHookReturn(c)
  \/ \E c \in Calls, initial_op \in TransportOps : CallInitHookNextOp(c, initial_op)
  \/ \E c \in Calls : CallStackInitEnd(c)
  \/ \E c \in Calls : CallStackDestroyBegin(c)
  \/ \E c \in Calls : CallDestroyCallHook(c)
  \/ \E c \in Calls : CallDestroyHookReturn(c)
  \/ \E c \in Calls : CallStackDestroyEnd(c)
  \/ \E c \in Calls, i \in 0..(Len(filters) - 1), op \in TransportOps :
       CallNextOp(c, i, op)
  \/ \E c \in Calls, i \in 0..(Len(filters) - 1) : CallElementSendCancel(c, i)
  \/ \E c \in Calls, i \in 0..(Len(filters) - 1),
        status \in StatusCodes, message \in StatusMessages :
       CallElementRecvStatus(c, i, status, message)
  \/ \E c \in Calls : TransportOpHandlerForward(c)
  \/ \E c \in Calls : TransportOpHandlerReturn(c)
  \/ \E i \in 0..(Len(filters) - 1), op \in ChannelOps : ChannelNextOp(i, op)
  \/ ChannelOpHandlerForward
  \/ ChannelOpHandlerReturn
  \/ \E i \in 0..(Len(filters) - 1) : ChannelStackElement(i)
  \/ ChannelStackLastElement
  \/ \E c \in Calls, i \in 0..(Len(filters) - 1) : CallStackElement(c, i)
  \/ ChannelStackFromTopElement
  \/ CallStackFromTopElement
  \/ ReleaseElement

Spec == Init /\ [][Next]_vars

\* The end-to-end scenario: three filters with channel-data sizes {8, 0, 16}
\* and call-data sizes {4, 4, 0}; the first two forward, the tail consumes.
ScenarioFilters == <<1, 2, 3>>

InitScenario == InitWith({ScenarioFilters}, NumCalls, "single")

\* Propagation is a chain of synchronous C calls: a handler that forwards
\* does so before anything else can run.
\* One channel stack shared by several call stacks, each driven by its own
\* thread: the steps of their init, propagation and destroy interleave freely.
ThreadedInit == InitWith({ScenarioFilters, <<4, 1>>}, ThreadedCalls, "threads")

ThreadedSpec == ThreadedInit /\ [][Next]_vars

ScenarioSpec ==
  /\ InitScenario
  /\ [][Next]_vars
  /\ WF_vars(\E c \in Calls : TransportOpHandlerForward(c))

TypeOK ==
  /\ plat \in Platforms
  /\ filters \in FilterLists
  /\ fault \in {"none", "assert_failed", "abort"} \cup UndefinedOutcomes


\* =================================================================== claims
\* arithmetic the properties are stated with, independent of the bit tricks
AlignUp(x, a) == ((x + a - 1) \div a) * a

IsPrefix(s, t) == Len(s) <= Len(t) /\ \A k \in 1..Len(s) : s[k] = t[k]

\* the events of one hook in a log, in order
RECURSIVE EventsOf(_, _)
EventsOf(log, hook) ==
  IF log = <<>> THEN <<>>
  ELSE LET rest == EventsOf(Tail(log), hook)
       IN  IF Head(log).hook = hook THEN <<Head(log)>> \o rest ELSE rest

\* the elements a hook was invoked on (with the filter owning the hook)
RECURSIVE InvokedOn(_, _)
InvokedOn(log, hook) ==
  IF log = <<>> THEN <<>>
  ELSE LET rest == InvokedOn(Tail(log), hook)
       IN  IF Head(log).hook = hook /\ Head(log).ev = "call"
           THEN <<<<Head(log).elem, Head(log).filter>>>> \o rest ELSE rest

ChannelInitLoopDone ==
  \/ cst.pc = "init_loop" /\ cst.i = cst.count
  \/ cst.pc = "ready"

ChannelInitialized == cst.pc \in {"ready", "destroy_loop", "destroy_hook", "destroyed"}

CallInitialized(c) == kst[c].pc \in {"ready", "destroy_loop", "destroy_hook", "destroyed"}

HasUnalignedFilter ==
  \E k \in 1..Len(filters) :
    FilterTable[filters[k]].sizeof_channel_data % plat.GPR_MAX_ALIGNMENT # 0

\* C1: once the loop of grpc_channel_stack_init has run, the user-data cursor
\* is grpc_channel_stack_size(filters, count) bytes past the stack header
\* (which is what the caller allocated), and the sizing assertion never aborts.
C1_SizingRoundTrip ==
  /\ fault # "assert_failed"
  /\ ChannelInitLoopDone =>
       /\ cst.user_data - ChannelStackAddr
            = grpc_channel_stack_size(plat, filters, Len(filters))
       /\ cst.user_data - ChannelStackAddr = allocated

C1_Witness ==
  /\ cst.pc = "ready" /\ Len(filters) = MaxFilters /\ HasUnalignedFilter

\* C2: the destroy hooks of a stack are invoked on the same elements, in the
\* same order, as its init hooks were (a prefix of them while destroy runs),
\* and once destroy has returned each element 0..count-1 was destroyed once.
C2_DestroyInInitOrder ==
  /\ IsPrefix(InvokedOn(chanLog, "destroy_channel_elem"),
              InvokedOn(chanLog, "init_channel_elem"))
  /\ cst.pc = "destroyed" =>
       /\ Len(InvokedOn(chanLog, "destroy_channel_elem")) = Len(filters)
       /\ \A k \in 1..Len(filters) :
            InvokedOn(chanLog, "destroy_channel_elem")[k]
              = <<ChannelStackAddr
                    + AlignUp(plat.sizeof_channel_stack, plat.GPR_MAX_ALIGNMENT)
                    + (k - 1) * plat.sizeof_channel_element,
                  filters[k]>>
  /\ \A c \in Calls :
       /\ IsPrefix(InvokedOn(callLog[c], "destroy_call_elem"),
                   InvokedOn(callLog[c], "init_call_elem"))
       /\ kst[c].pc = "destroyed" =>
            /\ Len(InvokedOn(callLog[c], "destroy_call_elem")) = Len(filters)
            /\ \A k \in 1..Len(filters) :
                 InvokedOn(callLog[c], "destroy_call_elem")[k]
                   = <<CallStackAddr(c)
                         + AlignUp(plat.sizeof_call_stack, plat.GPR_MAX_ALIGNMENT)
                         + (k - 1) * plat.sizeof_call_element,
                       filters[k]>>

C2_Witness ==
  /\ cst.pc = "destroyed" /\ Len(filters) = MaxFilters
  /\ \E c \in Calls : kst[c].pc = "destroyed"

\* the events of an init hook alternate call, return, call, return, ... on
\* elements 0, 0, 1, 1, ... of the stack whose element table starts at elems
AscendingCallReturn(evs, elems, elemSize) ==
  \A k \in 1..Len(evs) :
    /\ evs[k].ev = (IF k % 2 = 1 THEN "call" ELSE "ret")
    /\ evs[k].elem = elems + ((k - 1) \div 2) * elemSize
    /\ evs[k].filter = filters[((k - 1) \div 2) + 1]

\* C3: within one init call the init hooks are invoked in ascending index
\* order, each once, the hook of filter j only after the hooks of all i < j
\* have returned; when init has returned all count hooks have run.
C3_InitAscending ==
  /\ AscendingCallReturn(EventsOf(chanLog, "init_channel_elem"),
       ChannelStackAddr + AlignUp(plat.sizeof_channel_stack, plat.GPR_MAX_ALIGNMENT),
       plat.sizeof_channel_element)
  /\ ChannelInitialized =>
       Len(EventsOf(chanLog, "init_channel_elem")) = 2 * Len(filters)
  /\ \A c \in Calls :
       /\ AscendingCallReturn(EventsOf(callLog[c], "init_call_elem"),
            CallStackAddr(c) + AlignUp(plat.sizeof_call_stack, plat.GPR_MAX_ALIGNMENT),
            plat.sizeof_call_element)
       /\ CallInitialized(c) =>
            Len(EventsOf(callLog[c], "init_call_elem")) = 2 * Len(filters)

C3_Witness ==
  /\ Len(filters) = MaxFilters
  /\ ChannelInitialized
  /\ \E c \in Calls : CallInitialized(c)

\* C4: init_channel_elem of filter i gets is_head = (i = 0) and
\* is_tail = (i = count - 1); a single filter gets both, and in a longer list
\* no filter gets both.
C4_HeadTailFlags ==
  \A k \in 1..Len(chanLog) :
    (chanLog[k].hook = "init_channel_elem" /\ chanLog[k].ev = "call") =>
      LET e == chanLog[k]
          i == (e.elem - ChannelStackAddr
                  - AlignUp(plat.sizeof_channel_stack, plat.GPR_MAX_ALIGNMENT))
               \div plat.sizeof_channel_element
      IN  /\ e.is_head = (i = 0)
          /\ e.is_tail = (i = Len(filters) - 1)
          /\ Len(filters) = 1 => (e.is_head /\ e.is_tail)
          /\ Len(filters) >= 2 => ~(e.is_head /\ e.is_tail)

C4_Witness ==
  /\ ChannelInitialized /\ Len(filters) = MaxFilters
  /\ \E k \in 1..Len(chanLog) : chanLog[k].is_tail

C4_WitnessSingle ==
  /\ ChannelInitialized /\ Len(filters) = 1
  /\ \E k \in 1..Len(chanLog) : chanLog[k].is_tail /\ chanLog[k].is_head

\* C5: after grpc_call_stack_init the call stack has its parent's count, and
\* call element i holds the parent's element-i filter reference and the very
\* channel_data pointer of the parent's element i, which points into the
\* channel stack's buffer and not into the call stack's.
C5_SharedChannelData ==
  \A c \in Calls :
    CallInitialized(c) =>
      /\ calls[c].count = chan.count
      /\ calls[c].count = Len(filters)
      /\ \A i \in 0..(Len(filters) - 1) :
           /\ calls[c].elems[i].filter = chan.elems[i].filter
           /\ calls[c].elems[i].filter = filters[i + 1]
           /\ calls[c].elems[i].channel_data = chan.elems[i].channel_data
           /\ calls[c].elems[i].channel_data >= ChannelStackAddr
           /\ calls[c].elems[i].channel_data <= ChannelStackAddr + allocated
           /\ calls[c].elems[i].channel_data # calls[c].elems[i].call_data

C5_Witness ==
  \E c \in Calls : kst[c].pc = "ready" /\ Len(filters) = MaxFilters


ProbeDone == probe # <<>> /\ probe[1].owner # Uninit

ElemSizeOf(kind) ==
  IF kind = "channel" THEN plat.sizeof_channel_element
  ELSE plat.sizeof_call_element

\* C6 as stated: owner recovery applied to the element the accessor returned
\* for ANY valid index gives back the stack header.
C6_OwnerRecoveryAnyIndex ==
  ProbeDone => probe[1].owner = probe[1].stack

\* C6 (amended): owner recovery inverts the accessor for the top element
\* (index 0) only; applied to element i it yields the header address plus
\* i element sizes, for channel and for call stacks.
C6_OwnerRecoveryTopElement ==
  ProbeDone =>
    /\ probe[1].owner = probe[1].stack + probe[1].index * ElemSizeOf(probe[1].kind)
    /\ probe[1].index = 0 => probe[1].owner = probe[1].stack
    /\ probe[1].index > 0 => probe[1].owner > probe[1].stack

C6_Witness ==
  /\ ProbeDone /\ probe[1].index = 0 /\ probe[1].kind = "channel"
  /\ probe[1].owner = ChannelStackAddr
  /\ plat.sizeof_channel_stack % plat.GPR_MAX_ALIGNMENT # 0

C6_WitnessCall ==
  /\ ProbeDone /\ probe[1].index = 0 /\ probe[1].kind = "call"
  /\ probe[1].owner = probe[1].stack

\* the element whose code called the propagation primitive for this delivery
CallerOf(cur) ==
  IF Len(cur.path) = 1 THEN cur.start ELSE cur.path[Len(cur.path) - 1]

ChannelIndexOf(a) ==
  (a - ChannelStackAddr
     - AlignUp(plat.sizeof_channel_stack, plat.GPR_MAX_ALIGNMENT))
  \div plat.sizeof_channel_element

CallIndexOf(c, a) ==
  (a - CallStackAddr(c)
     - AlignUp(plat.sizeof_call_stack, plat.GPR_MAX_ALIGNMENT))
  \div plat.sizeof_call_element

\* C7: grpc_channel_next_op on element i delivers to the channel_op handler
\* of element i + dir, with element i as the origin; grpc_call_next_op on
\* element i delivers to the start_transport_op handler of element i + 1
\* whatever the operation holds (for targets inside the element table of a
\* stack whose init has returned).
C7_NextOpTarget ==
  /\ chanOp # <<>> =>
       LET cur == chanOp[1]
           i == ChannelIndexOf(CallerOf(cur))
           j == i + cur.op.dir
       IN  /\ cur.from = CallerOf(cur)
           /\ cur.handler = "channel_op"
           /\ cur.elem = CallerOf(cur) + cur.op.dir * plat.sizeof_channel_element
           /\ (j >= 0 /\ j < Len(filters)) =>
                /\ fault = "none"
                /\ ChannelIndexOf(cur.elem) = j
                /\ cur.filter = filters[j + 1]
  /\ \A c \in Calls :
       callOp[c] # <<>> =>
         LET cur == callOp[c][1]
             i == CallIndexOf(c, CallerOf(cur))
         IN  /\ cur.from = CallerOf(cur)
             /\ cur.handler = "start_transport_op"
             /\ cur.elem = CallerOf(cur) + plat.sizeof_call_element
             /\ i + 1 < Len(filters) => CallIndexOf(c, cur.elem) = i + 1
             /\ (i + 1 < Len(filters) /\ CallInitialized(c)) =>
                  /\ fault = "none"
                  /\ cur.filter = filters[i + 2]

C7_Witness ==
  /\ chanOp # <<>> /\ fault = "none"
  /\ chanOp[1].op.dir = GRPC_CALL_UP
  /\ Len(chanOp[1].path) = 2

C7_WitnessCall ==
  \E c \in Calls :
    /\ callOp[c] # <<>> /\ fault = "none"
    /\ callOp[c][1].op.recv_ops = 1
    /\ callOp[c][1].via = "grpc_call_next_op"
    /\ Len(callOp[c][1].path) = 2

\* C9: element addresses are header + aligned header size + i * element
\* size, strictly increasing in i, and every element slot ends at or before
\* the start of every data region handed to a filter (channel_data in a
\* channel stack, call_data in a call stack).
C9_ElementsBelowData ==
  LET n == Len(filters)
      chanTable == ChannelStackAddr
                     + AlignUp(plat.sizeof_channel_stack, plat.GPR_MAX_ALIGNMENT)
      chanSlots == {<<i, grpc_channel_stack_element(plat, ChannelStackAddr, i)>> :
                      i \in 0..(n - 1)}
  IN
  /\ \A s \in chanSlots :
       /\ s[2] = chanTable + s[1] * plat.sizeof_channel_element
       /\ \A t \in chanSlots : s[1] < t[1] => s[2] < t[2]
       /\ \A k \in 0..(n - 1) :
            chan.elems[k].channel_data # Uninit =>
              s[2] + plat.sizeof_channel_element <= chan.elems[k].channel_data
  /\ \A c \in Calls :
       LET callTable == CallStackAddr(c)
                          + AlignUp(plat.sizeof_call_stack, plat.GPR_MAX_ALIGNMENT)
           callSlots == {<<i, grpc_call_stack_element(plat, CallStackAddr(c), i)>> :
                           i \in 0..(n - 1)}
       IN  \A s \in callSlots :
             /\ s[2] = callTable + s[1] * plat.sizeof_call_element
             /\ \A t \in callSlots : s[1] < t[1] => s[2] < t[2]
             /\ \A k \in 0..(n - 1) :
                  calls[c].elems[k].call_data # Uninit =>
                    s[2] + plat.sizeof_call_element <= calls[c].elems[k].call_data

C9_Witness ==
  /\ Len(filters) = MaxFilters
  /\ ChannelInitialized
  /\ \E c \in Calls : CallInitialized(c)
  /\ (MaxFilters * plat.sizeof_call_element) % plat.GPR_MAX_ALIGNMENT # 0

Aligned(offset) == offset % plat.GPR_MAX_ALIGNMENT = 0

CancelIssuedAtHead(c) ==
  /\ callOp[c] # <<>>
  /\ callOp[c][1].via = "grpc_call_element_send_cancel"
  /\ callOp[c][1].start = CallStackAddr(c)
                            + AlignUp(plat.sizeof_call_stack, plat.GPR_MAX_ALIGNMENT)

CancelAtTail(c) ==
  /\ CancelIssuedAtHead(c)
  /\ fault = "none"
  /\ callOp[c][1].handler = "start_transport_op"
  /\ CallIndexOf(c, callOp[c][1].elem) = 2
  /\ callOp[c][1].filter = ScenarioFilters[3]
  /\ callOp[c][1].op.cancel_with_status = GRPC_STATUS_CANCELLED
  /\ \A k \in 1..Len(callOp[c][1].path) :
       CallIndexOf(c, callOp[c][1].path[k]) = k

\* C8: in the three-filter scenario a cancellation sent with
\* grpc_call_element_send_cancel at element 0 eventually arrives at element
\* 2's start_transport_op handler with status cancelled, having visited the
\* handlers in ascending index order.
C8_CancelReachesTail ==
  \A c \in 1..NumCalls : CancelIssuedAtHead(c) ~> CancelAtTail(c)

C8_Witness ==
  \E c \in Calls : CancelAtTail(c) /\ Len(callOp[c][1].path) = 2


RECURSIVE SumAlignedCallData(_)
SumAlignedCallData(k) ==
  IF k = 0 THEN 0
  ELSE SumAlignedCallData(k - 1)
       + AlignUp(FilterTable[filters[k]].sizeof_call_data, plat.GPR_MAX_ALIGNMENT)

ExpectedCallStackSize ==
  AlignUp(plat.sizeof_call_stack, plat.GPR_MAX_ALIGNMENT)
  + AlignUp(Len(filters) * plat.sizeof_call_element, plat.GPR_MAX_ALIGNMENT)
  + SumAlignedCallData(Len(filters))

CallInitLoopDone(c) ==
  \/ kst[c].pc = "init_loop" /\ kst[c].i = kst[c].count
  \/ kst[c].pc = "ready"

\* C11: the stored call_stack_size is the aligned call header size plus the
\* aligned size of count call elements plus the filters' aligned call-data
\* sizes; grpc_call_stack_init ends with its cursor exactly call_stack_size
\* bytes past the call stack header, and every call-data region handed out
\* ends inside those call_stack_size bytes.
C11_CallStackSize ==
  /\ chan.call_stack_size # Uninit => chan.call_stack_size = ExpectedCallStackSize
  /\ \A c \in Calls :
       /\ CallInitLoopDone(c) =>
            kst[c].user_data - CallStackAddr(c) = chan.call_stack_size
       /\ \A i \in 0..(Len(filters) - 1) :
            calls[c].elems[i].call_data # Uninit =>
              calls[c].elems[i].call_data
                + FilterTable[filters[i + 1]].sizeof_call_data
                <= CallStackAddr(c) + chan.call_stack_size

C11_Witness ==
  /\ Len(filters) = MaxFilters
  /\ \E k \in 1..Len(filters) :
       FilterTable[filters[k]].sizeof_call_data
         # FilterTable[filters[k]].sizeof_channel_data
  /\ \E c \in Calls : kst[c].pc = "ready"


\* C12: once grpc_channel_stack_init has returned, no step of any core
\* operation changes the channel stack's count, call_stack_size or element
\* table (filter references and channel_data pointers), and the buffer stays
\* allocated: destroy only invokes hooks.
C12_ChannelStackFrozen ==
  [][ChannelInitialized => (chan' = chan /\ allocated' = allocated)]_vars

C12_Witness ==
  /\ cst.pc = "destroyed"
  /\ Len(filters) = MaxFilters
  /\ chan.count = Len(filters)
  /\ chan.call_stack_size = ExpectedCallStackSize
  /\ \A i \in 0..(Len(filters) - 1) : chan.elems[i].filter = filters[i + 1]
  /\ \E c \in Calls : kst[c].pc = "destroyed"


RECURSIVE SumAlignedChannelData(_)
SumAlignedChannelData(k) ==
  IF k = 0 THEN 0
  ELSE SumAlignedChannelData(k - 1)
       + AlignUp(FilterTable[filters[k]].sizeof_channel_data, plat.GPR_MAX_ALIGNMENT)

\* the channel stack memory exactly as grpc_channel_stack_init must leave it
ExpectedChannelStack ==
  [count |-> Len(filters),
   call_stack_size |-> ExpectedCallStackSize,
   elems |-> [i \in 0..(Len(filters) - 1) |->
     [filter |-> filters[i + 1],
      channel_data |->
        ChannelStackAddr
        + AlignUp(plat.sizeof_channel_stack, plat.GPR_MAX_ALIGNMENT)
        + AlignUp(Len(filters) * plat.sizeof_channel_element, plat.GPR_MAX_ALIGNMENT)
        + SumAlignedChannelData(i)]]]

InBuffer(a, base, size) == base <= a /\ a <= base + size

\* C13: however the steps of several call stacks on one channel stack
\* interleave, each call stack's init hooks and destroy hooks run once each in
\* ascending index order, every call_data pointer lies in that call stack's
\* own buffer and in no other call stack's, and the shared channel stack
\* keeps the contents init gave it.
C13_CallStacksIndependent ==
  /\ ChannelInitialized => chan = ExpectedChannelStack
  /\ \A c \in Calls :
       LET table == CallStackAddr(c)
                      + AlignUp(plat.sizeof_call_stack, plat.GPR_MAX_ALIGNMENT)
       IN  /\ AscendingCallReturn(EventsOf(callLog[c], "init_call_elem"),
                                  table, plat.sizeof_call_element)
           /\ AscendingCallReturn(EventsOf(callLog[c], "destroy_call_elem"),
                                  table, plat.sizeof_call_element)
           /\ CallInitialized(c) =>
                Len(EventsOf(callLog[c], "init_call_elem")) = 2 * Len(filters)
           /\ kst[c].pc = "destroyed" =>
                Len(EventsOf(callLog[c], "destroy_call_elem")) = 2 * Len(filters)
           /\ \A i \in 0..(Len(filters) - 1) :
                calls[c].elems[i].call_data # Uninit =>
                  /\ InBuffer(calls[c].elems[i].call_data,
                              CallStackAddr(c), chan.call_stack_size)
                  /\ \A d \in Calls \ {c} :
                       ~InBuffer(calls[c].elems[i].call_data,
                                 CallStackAddr(d), chan.call_stack_size)
                  /\ ~InBuffer(calls[c].elems[i].call_data,
                               ChannelStackAddr, allocated)

C13_Witness ==
  /\ sched = "threads"
  /\ \E c \in Calls, d \in Calls :
       /\ c # d
       /\ kst[c].pc = "destroy_hook" /\ kst[c].i = 1
       /\ kst[d].pc = "init_hook" /\ kst[d].i = 1


\* C14: grpc_call_element_recv_status terminates the process for every
\* element, status code and message, and does nothing else: no handler is
\* invoked, no operation is propagated, no stack is written.
C14_RecvStatusAborts ==
  [][(\E c \in Calls, i \in 0..(Len(filters) - 1),
         status \in StatusCodes, message \in StatusMessages :
        CallElementRecvStatus(c, i, status, message))
     => /\ fault' = "abort"
        /\ callOp' = callOp /\ chanOp' = chanOp
        /\ callLog' = callLog /\ chanLog' = chanLog
        /\ chan' = chan /\ calls' = calls]_vars

\* once the process has aborted no core step runs any more
C14_NothingAfterAbort ==
  fault = "abort" =>
    /\ chanOp = <<>>
    /\ \A c \in Calls : callOp[c] = <<>>
    /\ ~ENABLED Next

C14_Witness ==
  /\ fault = "abort"
  /\ Len(filters) = MaxFilters
  /\ \E c \in Calls : kst[c].pc = "ready" /\ callOp[c] = <<>>


SentCancel(c) ==
  /\ callOp[c] # <<>>
  /\ callOp[c][1].via = "grpc_call_element_send_cancel"

\* C15: grpc_call_element_send_cancel(cur) delivers one operation, all of
\* whose fields are zero except cancel_with_status = GRPC_STATUS_CANCELLED,
\* to the start_transport_op handler of the element after cur; the handler of
\* cur itself is not invoked, neither by this delivery nor by the forwarding
\* that follows it.
C15_SendCancel ==
  \A c \in Calls :
    SentCancel(c) =>
      LET cur == callOp[c][1]
          i == CallIndexOf(c, cur.start)
      IN  /\ cur.op.send_ops = 0
          /\ cur.op.recv_ops = 0
          /\ cur.op.cancel_with_status = GRPC_STATUS_CANCELLED
          /\ cur.handler = "start_transport_op"
          /\ Len(cur.path) >= 1
          /\ cur.path[1] = cur.start + plat.sizeof_call_element
          /\ \A k \in 1..Len(cur.path) :
               /\ cur.path[k] # cur.start
               /\ cur.path[k] = cur.start + k * plat.sizeof_call_element
          /\ (Len(cur.path) = 1 /\ i + 1 < Len(filters)) =>
               /\ fault = "none"
               /\ cur.elem = CallStackAddr(c)
                    + AlignUp(plat.sizeof_call_stack, plat.GPR_MAX_ALIGNMENT)
                    + (i + 1) * plat.sizeof_call_element
               /\ cur.filter = calls[c].elems[i + 1].filter

C15_Witness ==
  \E c \in Calls :
    /\ SentCancel(c) /\ fault = "none"
    /\ Len(callOp[c][1].path) = 1
    /\ CallIndexOf(c, callOp[c][1].start) = 1
    /\ CallIndexOf(c, callOp[c][1].elem) = 2


ChannelElemPopulated(k) ==
  chan.elems[k].filter # Uninit /\ chan.elems[k].channel_data # Uninit

ChannelElemUntouched(k) ==
  chan.elems[k].filter = Uninit /\ chan.elems[k].channel_data = Uninit

CallElemPopulated(c, k) ==
  /\ calls[c].elems[k].filter # Uninit
  /\ calls[c].elems[k].channel_data # Uninit
  /\ calls[c].elems[k].call_data # Uninit

CallElemUntouched(c, k) ==
  /\ calls[c].elems[k].filter = Uninit
  /\ calls[c].elems[k].channel_data = Uninit
  /\ calls[c].elems[k].call_data = Uninit

\* C16: while filter i's init hook runs, elements 0..i of the stack being
\* built are populated and elements i+1..count-1 are untouched; the channel
\* header's call_stack_size is unwritten until the init loop is over.  So an
\* init_call_elem hook that forwards with grpc_call_next_op hits a slot the
\* core has not filled, and an init_channel_elem hook that recovers the
\* header finds call_stack_size unwritten.
C16_InitHookSeesPartialStack ==
  /\ cst.pc = "init_hook" =>
       \A k \in 0..(Len(filters) - 1) :
         IF k <= cst.i THEN ChannelElemPopulated(k) ELSE ChannelElemUntouched(k)
  /\ cst.pc \in {"init_loop", "init_hook"} => chan.call_stack_size = Uninit
  /\ (cst.pc = "init_hook" /\ probe # <<>> /\ probe[1].index = 0) =>
       /\ probe[1].owner = ChannelStackAddr
       /\ chan.call_stack_size = Uninit
  /\ \A c \in Calls :
       /\ kst[c].pc = "init_hook" =>
            \A k \in 0..(Len(filters) - 1) :
              IF k <= kst[c].i THEN CallElemPopulated(c, k)
              ELSE CallElemUntouched(c, k)
       /\ (callOp[c] # <<>> /\ callOp[c][1].via = "init_call_elem") =>
            /\ callOp[c][1].filter = Uninit
            /\ fault \in UndefinedOutcomes

C16_Witness ==
  /\ Len(filters) = MaxFilters
  /\ \E c \in Calls :
       /\ kst[c].pc = "init_hook" /\ kst[c].i = 0
       /\ callOp[c] # <<>> /\ callOp[c][1].via = "init_call_elem"
       /\ CallIndexOf(c, callOp[c][1].elem) = 1
       /\ fault \in UndefinedOutcomes

C16_WitnessHeader ==
  /\ cst.pc = "init_hook" /\ cst.i = 0 /\ Len(filters) = MaxFilters
  /\ probe # <<>> /\ probe[1].owner = ChannelStackAddr
  /\ chan.call_stack_size = Uninit


AllFiltersForward ==
  \A k \in 1..Len(filters) : FilterTable[filters[k]].forwards

\* C17: neither propagation primitive checks bounds.  The slot
\* grpc_call_next_op targets from element i is inside the element table
\* exactly when i < count - 1, and the one grpc_channel_next_op targets
\* exactly when 0 <= i + dir < count; otherwise the core still computes the
\* neighbouring address and calls through whatever lies there, which is
\* undefined.  In a stack whose filters all forward, propagation therefore
\* arrives one slot past the tail.
C17_NoBoundsCheck ==
  /\ \A c \in Calls :
       callOp[c] # <<>> =>
         LET cur == callOp[c][1]
             i == CallIndexOf(c, CallerOf(cur))
             inTable == CallElemIndex(plat, c, cur.elem) # Uninit
         IN  /\ inTable <=> (i < Len(filters) - 1)
             /\ cur.elem = CallStackAddr(c)
                  + AlignUp(plat.sizeof_call_stack, plat.GPR_MAX_ALIGNMENT)
                  + (i + 1) * plat.sizeof_call_element
             /\ ~inTable => (fault \in UndefinedOutcomes /\ cur.filter = Uninit)
             /\ (inTable /\ CallInitialized(c)) => fault = "none"
             /\ (AllFiltersForward /\ CallInitialized(c) /\ fault # "none") =>
                  CallIndexOf(c, cur.elem) = Len(filters)
  /\ chanOp # <<>> =>
       LET cur == chanOp[1]
           i == ChannelIndexOf(CallerOf(cur))
           j == i + cur.op.dir
           inTable == ChannelElemIndex(plat, cur.elem) # Uninit
       IN  /\ inTable <=> (0 <= j /\ j < Len(filters))
           /\ cur.elem = ChannelStackAddr
                + AlignUp(plat.sizeof_channel_stack, plat.GPR_MAX_ALIGNMENT)
                + j * plat.sizeof_channel_element
           /\ ~inTable => (fault \in UndefinedOutcomes /\ cur.filter = Uninit)
           /\ inTable => fault = "none"

C17_Witness ==
  /\ AllFiltersForward /\ Len(filters) = MaxFilters
  /\ \E c \in Calls :
       /\ callOp[c] # <<>> /\ fault \in UndefinedOutcomes
       /\ CallInitialized(c)
       /\ Len(callOp[c][1].path) = MaxFilters
       /\ CallIndexOf(c, callOp[c][1].elem) = Len(filters)

C17_WitnessChannelHead ==
  /\ chanOp # <<>> /\ fault \in UndefinedOutcomes
  /\ chanOp[1].op.dir = GRPC_CALL_UP
  /\ Len(chanOp[1].path) = MaxFilters


\* regions [a, a + m) and [b, b + n) have no byte in common
Disjoint(a, m, b, n) == m = 0 \/ n = 0 \/ a + m <= b \/ b + n <= a

\* data pointers ptr[0..n-1] with declared sizes size[0..n-1] describe
\* regions that lie in [lo, hi], do not intersect, and ascend with the index,
\* two pointers being equal only across filters that all declare size 0
RegionsLaidOut(ptr, size, n, lo, hi) ==
  /\ \A i \in 0..(n - 1) : lo <= ptr[i] /\ ptr[i] + size[i] <= hi
  /\ \A i \in 0..(n - 1) : \A j \in (i + 1)..(n - 1) :
       /\ Disjoint(ptr[i], size[i], ptr[j], size[j])
       /\ ptr[i] <= ptr[j]
       /\ ptr[i] = ptr[j] => \A k \in i..(j - 1) : size[k] = 0

\* C18: after init the channel_data regions of the channel stack lie between
\* the end of its element table and grpc_channel_stack_size bytes from its
\* start, are pairwise disjoint, and ascend with the index, sharing a pointer
\* only across filters of size 0; the call_data regions of every call stack
\* do the same within call_stack_size bytes.
C18_DataRegionsDisjoint ==
  /\ ChannelInitialized =>
       RegionsLaidOut(
         [i \in 0..(Len(filters) - 1) |-> chan.elems[i].channel_data],
         [i \in 0..(Len(filters) - 1) |-> FilterTable[filters[i + 1]].sizeof_channel_data],
         Len(filters),
         ChannelStackAddr
           + AlignUp(plat.sizeof_channel_stack, plat.GPR_MAX_ALIGNMENT)
           + Len(filters) * plat.sizeof_channel_element,
         ChannelStackAddr + allocated)
  /\ \A c \in Calls :
       CallInitialized(c) =>
         RegionsLaidOut(
           [i \in 0..(Len(filters) - 1) |-> calls[c].elems[i].call_data],
           [i \in 0..(Len(filters) - 1) |-> FilterTable[filters[i + 1]].sizeof_call_data],
           Len(filters),
           CallStackAddr(c)
             + AlignUp(plat.sizeof_call_stack, plat.GPR_MAX_ALIGNMENT)
             + Len(filters) * plat.sizeof_call_element,
           CallStackAddr(c) + chan.call_stack_size)

\* a stack of MaxFilters filters in which a zero-size filter shares its
\* pointer with a successor of non-zero size, and the last region ends
\* strictly inside the allocation
C18_Witness ==
  /\ ChannelInitialized /\ Len(filters) = MaxFilters
  /\ \E i \in 0..(Len(filters) - 2) :
       /\ FilterTable[filters[i + 1]].sizeof_channel_data = 0
       /\ FilterTable[filters[i + 2]].sizeof_channel_data > 0
       /\ chan.elems[i].channel_data = chan.elems[i + 1].channel_data
  /\ \E c \in Calls :
       /\ CallInitialized(c)
       /\ \E i \in 0..(Len(filters) - 2) :
            /\ FilterTable[filters[i + 1]].sizeof_call_data = 0
            /\ calls[c].elems[i].call_data = calls[c].elems[i + 1].call_data
       /\ \E i \in 0..(Len(filters) - 2) :
            calls[c].elems[i].call_data < calls[c].elems[i + 1].call_data

====
